---- MODULE Spec2Model ----
(***************************************************************************)
(* A model of the crdt-benches harness: the Upstream / Downstream adapter  *)
(* traits of src/src/rope.rs with their four implementations, and the two  *)
(* replay drivers of src/src/main.rs.                                      *)
(*                                                                         *)
(* Text is a sequence of characters.  "a" stands for a one-byte character  *)
(* and "E" for a two-byte one (such as U+00E9), so that a length in        *)
(* codepoints and a length in bytes are different numbers.  "_" is the     *)
(* filler diamond-types shows for an insert whose content it was never     *)
(* given.                                                                  *)
(***************************************************************************)
EXTENDS Integers, Sequences, FiniteSets, TLC

\* ------------------------------------------------------------------ bounds
MaxPatches == 2
MaxTrials == 2

\* The texts a trace draws its start content from.
StartTexts == {<<>>, <<"E">>}

\* The texts a patch draws its insert from.
InsTexts == {<<>>, <<"a">>, <<"E">>}

\* ------------------------------------------------------------------ strings
Utf8Len(c) == IF c = "E" THEN 2 ELSE 1

RECURSIVE ByteLen(_)
\* str::len: the length of a string in UTF-8 bytes.
ByteLen(s) == IF s = <<>> THEN 0 ELSE Utf8Len(Head(s)) + ByteLen(Tail(s))

\* str::chars().count(): the length of a string in codepoints.
CharLen(s) == Len(s)

\* s with the characters start..end (0-based, half open) replaced by text.
Splice(s, start, end, text) ==
    SubSeq(s, 1, start) \o text \o SubSeq(s, end + 1, Len(s))

\* The character index of byte offset b of s; -1 when b is not a character
\* boundary of s (inside a character, or past the end).
CharIdx(s, b) ==
    IF \E i \in 0..Len(s) : ByteLen(SubSeq(s, 1, i)) = b
    THEN CHOOSE i \in 0..Len(s) : ByteLen(SubSeq(s, 1, i)) = b
    ELSE -1

\* ------------------------------------------------------------------ traces
\* TestPatch(pos, del, ins) applied to a plain string, offsets in codepoints.
ApplyPatch(doc, p) == Splice(doc, p.pos, p.pos + p.del, p.ins)

RECURSIVE ApplyAll(_, _)
ApplyAll(doc, ps) ==
    IF ps = <<>> THEN doc ELSE ApplyAll(ApplyPatch(doc, Head(ps)), Tail(ps))

RECURSIVE Flatten(_)
\* The patches of all transactions, in trace order.
Flatten(txns) == IF txns = <<>> THEN <<>> ELSE Head(txns) \o Flatten(Tail(txns))

\* The patches that are in bounds on doc.
InBoundsPatches(doc) ==
    {[pos |-> p, del |-> d, ins |-> t] :
        <<p, d, t>> \in {x \in (0..Len(doc)) \X (0..Len(doc)) \X InsTexts :
                            x[1] + x[2] <= Len(doc)}}

RECURSIVE PatchSeqs(_, _)
\* Every sequence of at most n patches each in bounds where it is applied.
PatchSeqs(doc, n) ==
    IF n = 0 THEN {<<>>}
    ELSE {<<>>} \cup
         UNION {{<<p>> \o rest : rest \in PatchSeqs(ApplyPatch(doc, p), n - 1)} :
                    p \in InBoundsPatches(doc)}

RECURSIVE Splits(_)
\* Every way of cutting a patch sequence into non-empty transactions.
Splits(ps) ==
    IF ps = <<>> THEN {<<>>}
    ELSE UNION {{<<SubSeq(ps, 1, k)>> \o rest :
                    rest \in Splits(SubSeq(ps, k + 1, Len(ps)))} :
                    k \in 1..Len(ps)}

\* The traces load_testing_data can return: offsets in codepoints, every
\* patch in bounds, end_content the result of the patches on start_content.
Traces ==
    UNION {UNION {{[start_content |-> s,
                    end_content |-> ApplyAll(s, ps),
                    txns |-> x,
                    using_byte_positions |-> FALSE] : x \in Splits(ps)} :
                        ps \in PatchSeqs(s, MaxPatches)} :
                            s \in StartTexts}

\* One patch of chars_to_bytes: offsets in bytes of the document it is
\* applied to, the inserted text kept.
ConvPatch(doc, p) ==
    [pos |-> ByteLen(SubSeq(doc, 1, p.pos)),
     del |-> ByteLen(SubSeq(doc, p.pos + 1, p.pos + p.del)),
     ins |-> p.ins]

RECURSIVE ConvPatches(_, _)
ConvPatches(doc, ps) ==
    IF ps = <<>> THEN <<>>
    ELSE <<ConvPatch(doc, Head(ps))>> \o
         ConvPatches(ApplyPatch(doc, Head(ps)), Tail(ps))

RECURSIVE ConvTxns(_, _)
ConvTxns(doc, txns) ==
    IF txns = <<>> THEN <<>>
    ELSE <<ConvPatches(doc, Head(txns))>> \o
         ConvTxns(ApplyAll(doc, Head(txns)), Tail(txns))

\* TestData::chars_to_bytes: a new trace, the contents unchanged.
chars_to_bytes(t) ==
    [start_content |-> t.start_content,
     end_content |-> t.end_content,
     txns |-> ConvTxns(t.start_content, t.txns),
     using_byte_positions |-> TRUE]

\* ------------------------------------------------------------------ instances
\* No instance (a variable not yet assigned).
Null == [kind |-> "none"]

\* What is left of an instance whose operation panicked: the thread unwinds
\* and nothing runs after it.
Panic(why) == [kind |-> "panic", why |-> why]

\* Upstream::NAME of the four adapters.
Engines == {"automerge", "cola", "diamond-types", "yrs"}

\* Upstream::EDITS_USE_BYTE_OFFSETS: false by default, overridden by cola and
\* Yrs.
EDITS_USE_BYTE_OFFSETS(R) == R \in {"cola", "yrs"}

\* The ids yrs::Doc::new() can draw for a new document (it draws at random).
ClientIds == {1, 2}

\* --- Automerge: an autosurgeon::Text (a String) and the document it is
\* reconciled into.
Automerge_from_str(s) == [kind |-> "automerge", doc |-> s, text |-> s]

\* The mutant of Automerge_insert: the call returns and changes nothing.
Automerge_insert_ignored(r, at, s) == r

\* unimplemented!()
Automerge_insert(r, at, s) == Panic("unimplemented")

\* unimplemented!()
Automerge_remove(r, start, end) == Panic("unimplemented")

\* Text::splice edits the String at byte offsets (String::replace_range, which
\* panics off a character boundary); reconcile then copies it to the document.
Automerge_replace(r, start, end, text) ==
    LET len == end - start
        cs == CharIdx(r.text, start)
        ce == CharIdx(r.text, start + len)
    IN  IF cs = -1 \/ ce = -1 THEN Panic("splice")
        ELSE LET t == Splice(r.text, cs, ce, text)
             IN  [kind |-> "automerge", doc |-> t, text |-> t]

Automerge_len(r) == ByteLen(r.text)

\* --- cola::Replica: it holds no text, only the lengths of what was inserted.
Cola_from_str(s) == [kind |-> "cola", id |-> 1, len |-> ByteLen(s)]

\* The mutant of Cola_insert: the length of the inserted text is not recorded.
Cola_insert_dropped(r, at, s) ==
    IF at > r.len THEN Panic("out of bounds") ELSE r

Cola_insert(r, at, s) ==
    IF at > r.len THEN Panic("out of bounds")
    ELSE [r EXCEPT !.len = @ + ByteLen(s)]

Cola_remove(r, start, end) ==
    IF end > r.len THEN Panic("out of bounds")
    ELSE [r EXCEPT !.len = @ - (end - start)]

Cola_len(r) == r.len

\* --- Dt: a diamond-types OpLog, one entry per character inserted or deleted.
\* All entries are by the agent "bench"; seq is the entry's sequence number for
\* that agent, which is also its local version.  An insert entry whose content
\* is not known has ch = NoContent.
NoContent == "none"

\* OpLog::add_insert: one entry per codepoint of s.
DtAddInsert(oplog, pos, s) ==
    oplog \o [i \in 1..Len(s) |->
                [kind |-> "ins", agent |-> "bench", seq |-> Len(oplog) + i - 1,
                 pos |-> pos + i - 1, ch |-> s[i]]]

\* OpLog::add_delete_without_content: one entry per codepoint of the range.
DtAddDelete(oplog, start, end) ==
    oplog \o [i \in 1..(end - start) |->
                [kind |-> "del", agent |-> "bench", seq |-> Len(oplog) + i - 1,
                 pos |-> start, ch |-> NoContent]]

\* The version of the last entry of the log; -1 is the root version.
DtTip(oplog) == Len(oplog) - 1

Dt_from_str(s) ==
    LET oplog == DtAddInsert(<<>>, 0, s)
    IN  [kind |-> "diamond-types", oplog |-> oplog, agent |-> 0,
         time |-> DtTip(oplog)]

Dt_insert(r, at, s) ==
    LET oplog == DtAddInsert(r.oplog, at, s)
    IN  [r EXCEPT !.oplog = oplog, !.time = DtTip(oplog)]

Dt_remove(r, start, end) ==
    LET oplog == DtAddDelete(r.oplog, start, end)
    IN  [r EXCEPT !.oplog = oplog, !.time = DtTip(oplog)]

RECURSIVE DtApply(_, _)
\* The entries of a log applied in order to a document.
DtApply(doc, ops) ==
    IF ops = <<>> THEN doc
    ELSE LET op == Head(ops)
             next == IF op.kind = "ins"
                     THEN Splice(doc, op.pos, op.pos,
                                 <<IF op.ch = NoContent THEN "_" ELSE op.ch>>)
                     ELSE Splice(doc, op.pos, op.pos + 1, <<>>)
         IN  DtApply(next, Tail(ops))

\* OpLog::checkout_tip: the document at the tip of the log.
checkout_tip(oplog) == DtApply(<<>>, oplog)

\* Branch::len is a number of codepoints.
Dt_len(r) == CharLen(checkout_tip(r.oplog))

\* --- Yrs: the items of the document's text in document order, one per
\* character, each with the id (client, clock) of its insertion, the id of the
\* item it was inserted after (origin, <<>> at the start), and whether it has
\* since been deleted.
Yrs_new(client, s) ==
    [kind |-> "yrs", client |-> client,
     items |-> [i \in 1..Len(s) |->
                    [client |-> client, clock |-> i - 1, ch |-> s[i],
                     origin |-> IF i = 1 THEN <<>> ELSE <<client, i - 2>>,
                     deleted |-> FALSE]]]

\* The positions in items of the visible characters, in order.
YrsVisible(items) == SelectSeq([i \in 1..Len(items) |-> i],
                               LAMBDA i : ~items[i].deleted)

\* The visible text.
YrsText(r) ==
    LET vis == YrsVisible(r.items) IN [k \in 1..Len(vis) |-> r.items[vis[k]].ch]

\* Doc::transact().state_vector(): per client, the next clock.
state_vector(r) ==
    [c \in ClientIds |->
        Cardinality({i \in 1..Len(r.items) : r.items[i].client = c})]

\* Text::insert at a byte offset (the document's OffsetKind is Bytes).
Yrs_insert(r, at, s) ==
    LET vis == YrsVisible(r.items)
        ci == CharIdx(YrsText(r), at)
        clock == state_vector(r)[r.client]
    IN  IF ci = -1 THEN Panic("out of bounds")
        ELSE LET left == IF ci = 0 THEN 0 ELSE vis[ci]
                 new == [i \in 1..Len(s) |->
                            [client |-> r.client, clock |-> clock + i - 1,
                             ch |-> s[i],
                             origin |-> IF i > 1 THEN <<r.client, clock + i - 2>>
                                        ELSE IF left = 0 THEN <<>>
                                        ELSE <<r.items[left].client,
                                               r.items[left].clock>>,
                             deleted |-> FALSE]]
             IN  [r EXCEPT !.items = SubSeq(r.items, 1, left) \o new \o
                                     SubSeq(r.items, left + 1, Len(r.items))]

\* Text::remove_range of len bytes at a byte offset.
Yrs_remove(r, start, end) ==
    LET vis == YrsVisible(r.items)
        cs == CharIdx(YrsText(r), start)
        ce == CharIdx(YrsText(r), end)
    IN  IF cs = -1 \/ ce = -1 THEN Panic("out of bounds")
        ELSE [r EXCEPT !.items =
                [i \in 1..Len(r.items) |->
                    IF \E k \in (cs + 1)..ce : vis[k] = i
                    THEN [r.items[i] EXCEPT !.deleted = TRUE]
                    ELSE r.items[i]]]

Yrs_len(r) == ByteLen(YrsText(r))

\* ------------------------------------------------------------------ Upstream
\* An instance together with the trait calls made on it so far: c.rope is the
\* instance, c.calls the insert and remove calls in the order they were made.
Ctx(r) == [rope |-> r, calls |-> <<>>]

\* Upstream::from_str; id is the client id a new yrs::Doc draws.
from_str(R, id, s) ==
    CASE R = "automerge" -> Automerge_from_str(s)
      [] R = "cola" -> Cola_from_str(s)
      [] R = "diamond-types" -> Dt_from_str(s)
      [] R = "yrs" -> Yrs_new(id, s)

\* Upstream::insert on c.rope; nothing runs once the instance has panicked.
insert(c, at, s) ==
    IF c.rope.kind = "panic" THEN c
    ELSE [rope |-> CASE c.rope.kind = "automerge" -> Automerge_insert(c.rope, at, s)
                     [] c.rope.kind = "cola" -> Cola_insert(c.rope, at, s)
                     [] c.rope.kind = "diamond-types" -> Dt_insert(c.rope, at, s)
                     [] c.rope.kind = "yrs" -> Yrs_insert(c.rope, at, s),
          calls |-> Append(c.calls, [op |-> "insert", start |-> at, end |-> at,
                                     text |-> s])]

\* Upstream::remove on c.rope.
remove(c, start, end) ==
    IF c.rope.kind = "panic" THEN c
    ELSE [rope |-> CASE c.rope.kind = "automerge" -> Automerge_remove(c.rope, start, end)
                     [] c.rope.kind = "cola" -> Cola_remove(c.rope, start, end)
                     [] c.rope.kind = "diamond-types" -> Dt_remove(c.rope, start, end)
                     [] c.rope.kind = "yrs" -> Yrs_remove(c.rope, start, end),
          calls |-> Append(c.calls, [op |-> "remove", start |-> start, end |-> end,
                                     text |-> <<>>])]

\* Upstream::len.
len(r) ==
    CASE r.kind = "automerge" -> Automerge_len(r)
      [] r.kind = "cola" -> Cola_len(r)
      [] r.kind = "diamond-types" -> Dt_len(r)
      [] r.kind = "yrs" -> Yrs_len(r)

\* The mutant of Upstream_replace: insert first, then remove.
Upstream_replace_insert_first(c, start, end, text) ==
    LET c1 == IF text # <<>> THEN insert(c, start, text) ELSE c
    IN  IF end > start THEN remove(c1, start, end) ELSE c1

\* The default Upstream::replace.
Upstream_replace(c, start, end, text) ==
    LET c1 == IF end > start THEN remove(c, start, end) ELSE c
    IN  IF text # <<>> THEN insert(c1, start, text) ELSE c1

\* The mutant of replace: Automerge inherits the default as well.
replace_inherited(c, start, end, text) ==
    IF c.rope.kind = "panic" THEN c
    ELSE Upstream_replace(c, start, end, text)

\* replace as the adapter of c.rope provides it: Automerge overrides it, the
\* other three inherit the default.
replace(c, start, end, text) ==
    IF c.rope.kind = "panic" THEN c
    ELSE IF c.rope.kind = "automerge"
    THEN [c EXCEPT !.rope = Automerge_replace(c.rope, start, end, text)]
    ELSE Upstream_replace(c, start, end, text)

\* ------------------------------------------------------------------ Downstream
\* The EncodeOptions Dt::upstream_updates encodes with.
options ==
    [user_data |-> "None", store_start_branch_content |-> TRUE,
     store_inserted_content |-> FALSE, store_deleted_content |-> FALSE,
     compress_content |-> FALSE, verbose |-> FALSE]

\* OpLog::encode_from: the entries after version from, named by agent and seq,
\* with the inserted content only if the options keep it.
encode_from(oplog, opts, from) ==
    [from |-> from,
     ops |-> [i \in 1..(Len(oplog) - (from + 1)) |->
                LET op == oplog[from + 1 + i]
                IN  IF opts.store_inserted_content THEN op
                    ELSE [op EXCEPT !.ch = NoContent]]]

\* OpLog::decode_and_add: an error, and nothing added, when the version the
\* update starts from is not in the log; otherwise the entries the log does not
\* have yet (by agent and seq) are appended.
decode_and_add(oplog, update) ==
    IF update.from > DtTip(oplog) THEN [ok |-> FALSE, oplog |-> oplog]
    ELSE [ok |-> TRUE,
          oplog |-> oplog \o SelectSeq(update.ops,
                                       LAMBDA op : op.seq > DtTip(oplog))]

RECURSIVE DtCapture(_, _, _)
\* The loop of Dt::upstream_updates over the patches still to apply.
DtCapture(upstream, patches, updates) ==
    IF patches = <<>> THEN [upstream |-> upstream, updates |-> updates]
    ELSE LET p == Head(patches)
             from == upstream.time
             next == replace(Ctx(upstream), p.pos, p.pos + p.del, p.ins).rope
             update == encode_from(next.oplog, options, from)
         IN  DtCapture(next, Tail(patches), Append(updates, update))

\* The mutant of Dt_upstream_updates: the replayed source is returned.
Dt_upstream_updates_source(trace) ==
    LET got == DtCapture(Dt_from_str(trace.start_content), Flatten(trace.txns), <<>>)
    IN  <<got.upstream, got.updates>>

\* The mutant of Dt_upstream_updates: one update for the whole trace.
Dt_upstream_updates_one(trace) ==
    LET upstream == Dt_from_str(trace.start_content)
        got == DtCapture(upstream, Flatten(trace.txns), <<>>)
    IN  <<Dt_from_str(trace.start_content),
          <<encode_from(got.upstream.oplog, options, upstream.time)>> >>

\* The mutant of Dt_upstream_updates: the baseline is not seeded.
Dt_upstream_updates_unseeded(trace) ==
    LET got == DtCapture(Dt_from_str(trace.start_content), Flatten(trace.txns), <<>>)
    IN  <<Dt_from_str(<<>>), got.updates>>

\* Dt::upstream_updates: the updates captured on a source, and a baseline made
\* by a second from_str(start_content).
Dt_upstream_updates(trace) ==
    LET got == DtCapture(Dt_from_str(trace.start_content), Flatten(trace.txns), <<>>)
    IN  <<Dt_from_str(trace.start_content), got.updates>>

\* The mutant of Dt_apply_update: the result of decode_and_add is unwrapped.
Dt_apply_update_unwrap(r, update) ==
    IF decode_and_add(r.oplog, update).ok
    THEN [r EXCEPT !.oplog = decode_and_add(r.oplog, update).oplog]
    ELSE Panic("unwrap")

\* The result of decode_and_add is discarded.
Dt_apply_update(r, update) ==
    [r EXCEPT !.oplog = decode_and_add(r.oplog, update).oplog]

\* todo!()
Automerge_upstream_updates(trace) == <<Panic("todo"), <<>>>>

\* AutoCommit::merge of the other document, its result discarded; text, which
\* len reads, is not touched.
Automerge_apply_update(r, other) == [r EXCEPT !.doc = other.doc]

\* ReadTxn::encode_diff_v1: the items the state vector does not cover, and the
\* ids of every deleted item.
encode_diff_v1(r, sv) ==
    [items |-> SelectSeq([i \in 1..Len(r.items) |->
                            [r.items[i] EXCEPT !.deleted = FALSE]],
                         LAMBDA it : it.clock >= sv[it.client]),
     ds |-> {<<r.items[i].client, r.items[i].clock>> :
                i \in {j \in 1..Len(r.items) : r.items[j].deleted}}]

\* The position in items of the item with this id, 0 when there is none.
YrsIndex(items, id) ==
    IF \E i \in 1..Len(items) : <<items[i].client, items[i].clock>> = id
    THEN CHOOSE i \in 1..Len(items) : <<items[i].client, items[i].clock>> = id
    ELSE 0

RECURSIVE YrsScan(_, _, _, _)
\* Where an item with origin at position left goes: after the items that
\* follow left and were inserted there by a smaller client, and after what was
\* inserted behind those.
YrsScan(items, it, left, j) ==
    IF j + 1 > Len(items) THEN j
    ELSE LET o == YrsIndex(items, items[j + 1].origin)
         IN  IF (o = left /\ items[j + 1].client < it.client) \/ o > left
             THEN YrsScan(items, it, left, j + 1)
             ELSE j

RECURSIVE YrsIntegrate(_, _)
\* The items of an update put into the document, those it has already skipped.
YrsIntegrate(items, new) ==
    IF new = <<>> THEN items
    ELSE LET it == Head(new)
             left == YrsIndex(items, it.origin)
             j == YrsScan(items, it, left, left)
         IN  IF YrsIndex(items, <<it.client, it.clock>>) # 0
             THEN YrsIntegrate(items, Tail(new))
             ELSE YrsIntegrate(SubSeq(items, 1, j) \o <<it>> \o
                               SubSeq(items, j + 1, Len(items)), Tail(new))

\* TransactionMut::apply_update.
YrsApply(r, update) ==
    LET items == YrsIntegrate(r.items, update.items)
    IN  [r EXCEPT !.items =
            [i \in 1..Len(items) |->
                IF <<items[i].client, items[i].clock>> \in update.ds
                THEN [items[i] EXCEPT !.deleted = TRUE] ELSE items[i]]]

RECURSIVE YrsCapture(_, _, _, _)
\* The loop of Yrs::upstream_updates over the patches still to apply.
YrsCapture(upstream, downstream, patches, updates) ==
    IF patches = <<>> \/ upstream.kind = "panic"
    THEN [upstream |-> upstream, updates |-> updates]
    ELSE LET p == Head(patches)
             next == replace(Ctx(upstream), p.pos, p.pos + p.del, p.ins).rope
         IN  IF next.kind = "panic"
             THEN [upstream |-> next, updates |-> updates]
             ELSE LET sv == state_vector(downstream)
                      enc_update == encode_diff_v1(next, sv)
                  IN  YrsCapture(next, YrsApply(downstream, enc_update),
                                 Tail(patches), Append(updates, enc_update))

\* ids are the client ids the three documents draw: the source's, the tracking
\* document's and the returned baseline's.
Yrs_upstream_updates(trace, ids) ==
    LET got == YrsCapture(Yrs_new(ids[1], trace.start_content),
                          Yrs_new(ids[2], trace.start_content),
                          Flatten(trace.txns), <<>>)
    IN  IF got.upstream.kind = "panic" THEN <<got.upstream, <<>>>>
        ELSE <<Yrs_new(ids[3], trace.start_content), got.updates>>

\* todo!()
Yrs_apply_update(r, update) == Panic("todo")

\* Downstream::upstream_updates.
upstream_updates(R, trace, ids) ==
    CASE R = "diamond-types" -> Dt_upstream_updates(trace)
      [] R = "automerge" -> Automerge_upstream_updates(trace)
      [] R = "yrs" -> Yrs_upstream_updates(trace, ids)

\* Downstream::apply_update.
apply_update(r, update) ==
    CASE r.kind = "diamond-types" -> Dt_apply_update(r, update)
      [] r.kind = "automerge" -> Automerge_apply_update(r, update)
      [] r.kind = "yrs" -> Yrs_apply_update(r, update)

\* ------------------------------------------------------------------ drivers
VARIABLES
    group,      \* "upstream" or "downstream": which bench function runs
    R,          \* the adapter the bench function is instantiated with
    file,       \* the trace load_testing_data returns
    trace,      \* the driver's trace, Null until loaded
    crdt,       \* downstream::bench: the baseline upstream_updates returned
    updates,    \* downstream::bench: the updates upstream_updates returned
    rope,       \* the instance of the running trial: rope in upstream::bench,
                \* the clone of crdt in downstream::bench
    ti, pi,     \* upstream trial: the transaction and the patch within it to
                \* apply next
    ui,         \* downstream trial: the update to apply next
    calls,      \* the insert and remove calls the last replace made
    trial,      \* the number of completed trials
    report,     \* what a failed assertion reported, Null while none has
    pc          \* where the bench function is

vars == <<group, R, file, trace, crdt, updates, rope, ti, pi, ui, calls, trial,
          report, pc>>

\* The benches main.rs runs on each trace: upstream with all four adapters,
\* downstream with Dt alone (the other three lines are commented out).
Benches ==
    {<<"upstream", "automerge">>, <<"upstream", "cola">>,
     <<"upstream", "diamond-types">>, <<"upstream", "yrs">>,
     <<"downstream", "diamond-types">>}

\* The benches the two generic functions can be instantiated with: every
\* adapter is Upstream; Automerge, Dt and Yrs are Downstream.
AllBenches ==
    ({"upstream"} \X Engines) \cup
    ({"downstream"} \X {"automerge", "diamond-types", "yrs"})

InitWith(benches) ==
    /\ \E b \in benches : group = b[1] /\ R = b[2]
    /\ file \in Traces
    /\ trace = Null
    /\ crdt = Null
    /\ updates = <<>>
    /\ rope = Null
    /\ ti = 1
    /\ pi = 1
    /\ ui = 1
    /\ calls = <<>>
    /\ trial = 0
    /\ report = Null
    /\ pc = "load"

Init == InitWith(Benches)

InitAll == InitWith(AllBenches)

\* The mutant of Transform: the trace is never converted.
TransformNever(E, t) == t

\* The trace as the bench functions replay it for adapter E.
Transform(E, t) == IF EDITS_USE_BYTE_OFFSETS(E) THEN chars_to_bytes(t) ELSE t

\* The first transaction at or after t that has a patch; Len(txns) + 1 when
\* there is none.
FirstTxn(txns, t) ==
    IF \E k \in t..Len(txns) : txns[k] # <<>>
    THEN CHOOSE k \in t..Len(txns) :
            txns[k] # <<>> /\ \A j \in t..(k - 1) : txns[j] = <<>>
    ELSE Len(txns) + 1

\* Both bench functions: load the trace and convert it for the adapter.
Load ==
    /\ pc = "load"
    /\ trace' = Transform(R, file)
    /\ pc' = IF group = "upstream" THEN "iter" ELSE "setup"
    /\ UNCHANGED <<group, R, file, crdt, updates, rope, ti, pi, ui, calls, trial, report>>

\* downstream::bench: upstream_updates, once, before the trials.
Setup ==
    /\ pc = "setup"
    /\ \E ids \in IF R = "yrs" THEN ClientIds \X ClientIds \X ClientIds
                  ELSE {<<1, 1, 1>>} :
        LET got == upstream_updates(R, trace, ids)
        IN  /\ crdt' = got[1]
            /\ updates' = got[2]
            /\ pc' = IF got[1].kind = "panic" THEN "panicked" ELSE "iter"
    /\ UNCHANGED <<group, R, file, trace, rope, ti, pi, ui, calls, trial, report>>

\* The instance an upstream trial starts from.
UpstreamFresh(id) == from_str(R, id, trace.start_content)

\* upstream::bench, the start of a trial: a new instance from start_content.
UpstreamIter ==
    /\ pc = "iter"
    /\ group = "upstream"
    /\ trial < MaxTrials
    /\ \E id \in IF R = "yrs" THEN ClientIds ELSE {1} :
        rope' = UpstreamFresh(id)
    /\ ti' = FirstTxn(trace.txns, 1)
    /\ pi' = 1
    /\ calls' = <<>>
    /\ pc' = IF FirstTxn(trace.txns, 1) > Len(trace.txns) THEN "assert" ELSE "replay"
    /\ UNCHANGED <<group, R, file, trace, crdt, updates, ui, trial, report>>

\* The mutant of CurrentPatch: the patches of a transaction are taken last
\* to first.
CurrentPatchReversed == trace.txns[ti][Len(trace.txns[ti]) + 1 - pi]

\* The patch the two loops of upstream::bench are at.
CurrentPatch == trace.txns[ti][pi]

\* upstream::bench, one turn of the inner loop: replace for the next patch.
ReplayPatch ==
    /\ pc = "replay"
    /\ LET p == CurrentPatch
           c == replace(Ctx(rope), p.pos, p.pos + p.del, p.ins)
           last == pi = Len(trace.txns[ti])
           nt == IF last THEN FirstTxn(trace.txns, ti + 1) ELSE ti
       IN  /\ rope' = c.rope
           /\ calls' = c.calls
           /\ ti' = nt
           /\ pi' = IF last THEN 1 ELSE pi + 1
           /\ pc' = IF c.rope.kind = "panic" THEN "panicked"
                    ELSE IF nt > Len(trace.txns) THEN "assert" ELSE "replay"
    /\ UNCHANGED <<group, R, file, trace, crdt, updates, ui, trial, report>>

\* The length both drivers expect: end_content.len(), a number of bytes.
Expected == ByteLen(trace.end_content)

\* BenchmarkId::new(trace_file, R::NAME): the name the trials are measured
\* under.
BenchmarkId == [function_name |-> "trace_file", parameter |-> R]

\* What a failing assert_eq!(left, right) panics with: the macro is given no
\* message, so the two values are all it reports.
assert_eq(left, right) == [kind |-> "assertion", left |-> left, right |-> right]

\* upstream::bench, the end of a trial: assert_eq!(rope.len(), ...).
UpstreamAssert ==
    /\ pc = "assert"
    /\ group = "upstream"
    /\ pc' = IF len(rope) # Expected THEN "assert_failed"
             ELSE IF trial + 1 = MaxTrials THEN "done" ELSE "iter"
    /\ trial' = IF len(rope) # Expected THEN trial ELSE trial + 1
    /\ report' = IF len(rope) # Expected THEN assert_eq(len(rope), Expected)
                 ELSE report
    /\ UNCHANGED <<group, R, file, trace, crdt, updates, rope, ti, pi, ui, calls>>

\* The mutant of DownstreamClone: the trial works on the instance of the
\* trial before.
DownstreamCloneReused == IF trial = 0 THEN crdt ELSE rope

\* The instance a downstream trial starts from: crdt.clone().
DownstreamClone == crdt

\* downstream::bench, the start of a trial.
DownstreamIter ==
    /\ pc = "iter"
    /\ group = "downstream"
    /\ trial < MaxTrials
    /\ rope' = DownstreamClone
    /\ ui' = 1
    /\ pc' = IF updates = <<>> THEN "assert" ELSE "apply"
    /\ UNCHANGED <<group, R, file, trace, crdt, updates, ti, pi, calls, trial, report>>

\* downstream::bench, one turn of the loop: apply_update for the next update.
ApplyUpdate ==
    /\ pc = "apply"
    /\ LET r == apply_update(rope, updates[ui])
       IN  /\ rope' = r
           /\ pc' = IF r.kind = "panic" THEN "panicked"
                    ELSE IF ui = Len(updates) THEN "assert" ELSE "apply"
    /\ ui' = ui + 1
    /\ UNCHANGED <<group, R, file, trace, crdt, updates, ti, pi, calls, trial, report>>

\* downstream::bench, the end of a trial: assert_eq!(crdt.len(), ...).
DownstreamAssert ==
    /\ pc = "assert"
    /\ group = "downstream"
    /\ pc' = IF len(rope) # Expected THEN "assert_failed"
             ELSE IF trial + 1 = MaxTrials THEN "done" ELSE "iter"
    /\ trial' = IF len(rope) # Expected THEN trial ELSE trial + 1
    /\ report' = IF len(rope) # Expected THEN assert_eq(len(rope), Expected)
                 ELSE report
    /\ UNCHANGED <<group, R, file, trace, crdt, updates, rope, ti, pi, ui, calls>>

Next ==
    \/ Load
    \/ Setup
    \/ UpstreamIter
    \/ ReplayPatch
    \/ UpstreamAssert
    \/ DownstreamIter
    \/ ApplyUpdate
    \/ DownstreamAssert

\* The benches of main.rs.
Spec == Init /\ [][Next]_vars

\* The two bench functions with any adapter they can be instantiated with.
SpecAll == InitAll /\ [][Next]_vars

\* ------------------------------------------------------------------ claims
\* The length of s in the offset unit adapter E declares.
UnitLen(E, s) == IF EDITS_USE_BYTE_OFFSETS(E) THEN ByteLen(s) ELSE CharLen(s)

\* The patches an upstream trial at (t, p) has applied.
AppliedPatches(txns, t, p) ==
    Flatten(SubSeq(txns, 1, t - 1)) \o
    (IF t <= Len(txns) THEN SubSeq(txns[t], 1, p - 1) ELSE <<>>)

\* The text an instance holds (cola holds none).
Content(r) ==
    CASE r.kind = "automerge" -> r.text
      [] r.kind = "diamond-types" -> checkout_tip(r.oplog)
      [] r.kind = "yrs" -> YrsText(r)

\* rope is an instance, neither unassigned nor panicked.
Live(r) == r.kind \notin {"none", "panic"}

\* downstream::bench has returned from upstream_updates.
SetupDone == group = "downstream" /\ pc \notin {"load", "setup", "panicked"}

\* C1: an upstream replay of a valid trace never panics, ends with len() equal
\* to the length of end_content in the adapter's declared offset unit, and the
\* driver's assertion does not fail.
C1_UpstreamReplay ==
    group = "upstream" =>
        /\ pc \notin {"assert_failed", "panicked"}
        /\ pc = "assert" => len(rope) = UnitLen(R, file.end_content)

\* C2: a downstream trial of a valid trace ends with len() equal to the length
\* of end_content, and the driver's assertion does not fail.
C2_DownstreamReplay ==
    group = "downstream" =>
        /\ pc \notin {"assert_failed", "panicked"}
        /\ pc = "assert" => len(rope) = UnitLen(R, file.end_content)

\* C3: after the updates are applied in order to a clone of the baseline, the
\* content of the document is the trace's end_content.
C3_DownstreamContent ==
    (group = "downstream" /\ pc = "assert") => Content(rope) = file.end_content

\* C4: the default replace calls remove(start..end) exactly when end > start,
\* insert(start, text) exactly when text is not empty, remove before insert,
\* and with an empty range and an empty text calls neither and leaves the
\* instance as it was.
C4_DefaultReplace ==
    [][(pc = "replay" /\ R # "automerge") =>
        LET p == trace.txns[ti][pi]
            start == p.pos
            end == p.pos + p.del
            removes == {i \in 1..Len(calls') : calls'[i].op = "remove"}
            inserts == {i \in 1..Len(calls') : calls'[i].op = "insert"}
        IN  /\ Cardinality(removes) = (IF end > start THEN 1 ELSE 0)
            /\ Cardinality(inserts) = (IF p.ins # <<>> THEN 1 ELSE 0)
            /\ \A i \in removes : calls'[i].start = start /\ calls'[i].end = end
            /\ \A i \in inserts : calls'[i].start = start /\ calls'[i].text = p.ins
            /\ \A i \in removes : \A j \in inserts : i < j
            /\ (end = start /\ p.ins = <<>>) => (calls' = <<>> /\ rope' = rope)]_vars

\* C4's case: a replace that both removed and inserted.
C4_Witness ==
    /\ R # "automerge"
    /\ Len(calls) = 2
    /\ calls[1].op = "remove"
    /\ calls[2].op = "insert"

\* C5: in every state of an upstream trial, len() is the size of the document
\* in the unit the adapter declares with EDITS_USE_BYTE_OFFSETS.
C5_LenInDeclaredUnit ==
    (group = "upstream" /\ Live(rope)) =>
        len(rope) = UnitLen(R, ApplyAll(file.start_content,
                                        AppliedPatches(file.txns, ti, pi)))

\* C6: the instance from_str(s) returns reports, before any edit, the length
\* of s in the adapter's declared offset unit.
C6_Creation ==
    (group = "upstream" /\ Live(rope) /\ AppliedPatches(file.txns, ti, pi) = <<>>) =>
        len(rope) = UnitLen(R, file.start_content)

\* C7: the driver's trace is the loaded trace converted with chars_to_bytes
\* exactly when the adapter declares byte offsets, and it is so before any
\* instance is created or any update derived.
C7_PreTransform ==
    /\ pc = "load" => (trace = Null /\ rope = Null /\ crdt = Null /\ updates = <<>>)
    /\ pc # "load" =>
        /\ EDITS_USE_BYTE_OFFSETS(R) => trace = chars_to_bytes(file)
        /\ ~EDITS_USE_BYTE_OFFSETS(R) => trace = file
        /\ trace.using_byte_positions = EDITS_USE_BYTE_OFFSETS(R)

\* C7's case: a byte-offset adapter replaying a trace whose offsets the
\* conversion changed.
C7_Witness ==
    /\ pc = "replay"
    /\ EDITS_USE_BYTE_OFFSETS(R)
    /\ trace.txns # file.txns
    /\ Len(calls) > 0

\* C8: upstream_updates returns one update per patch of the trace, patches
\* that do nothing included, and the i-th update holds what the i-th patch did.
C8_OneUpdatePerPatch ==
    SetupDone =>
        LET patches == Flatten(trace.txns)
        IN  /\ Len(updates) = Len(patches)
            /\ \A i \in 1..Len(updates) :
                /\ R = "diamond-types" =>
                    /\ Len(updates[i].ops) = patches[i].del + Len(patches[i].ins)
                    /\ \A k \in 1..Len(updates[i].ops) :
                        updates[i].ops[k].kind =
                            (IF k <= patches[i].del THEN "del" ELSE "ins")
                /\ R = "yrs" =>
                    /\ Len(updates[i].items) >= Len(patches[i].ins)
                    /\ i > 1 => Len(updates[i].items) = Len(patches[i].ins)

\* C8's case: two patches in one transaction, the first of which does nothing.
C8_Witness ==
    /\ SetupDone
    /\ R = "diamond-types"
    /\ Len(trace.txns) = 1
    /\ Len(updates) = 2
    /\ updates[1].ops = <<>>
    /\ Len(updates[2].ops) = 2

\* C9: the instance upstream_updates returns is a new from_str(start_content)
\* instance, not the source the trace was replayed on: it holds the seed alone
\* and its len() is the length of start_content.
C9_FreshBaseline ==
    SetupDone =>
        /\ len(crdt) = UnitLen(R, trace.start_content)
        /\ R = "diamond-types" => crdt = Dt_from_str(trace.start_content)
        /\ R = "yrs" => \E id \in ClientIds : crdt = Yrs_new(id, trace.start_content)

\* C9's case: a trace whose patches changed the source's length.
C9_Witness ==
    /\ SetupDone
    /\ R = "diamond-types"
    /\ Len(updates) = 2
    /\ LET got == DtCapture(Dt_from_str(trace.start_content),
                            Flatten(trace.txns), <<>>)
       IN  len(got.upstream) # len(crdt)

RECURSIVE ReplayAll(_, _)
\* replace for every patch, on an instance.
ReplayAll(r, patches) ==
    IF patches = <<>> THEN r
    ELSE ReplayAll(replace(Ctx(r), Head(patches).pos,
                           Head(patches).pos + Head(patches).del,
                           Head(patches).ins).rope, Tail(patches))

RECURSIVE ApplyAllUpdates(_, _)
\* apply_update for every update, on an instance.
ApplyAllUpdates(r, us) ==
    IF us = <<>> THEN r ELSE ApplyAllUpdates(apply_update(r, Head(us)), Tail(us))

\* C10: a trial changes neither the baseline, the updates nor the trace; a
\* downstream trial starts from the baseline and an upstream trial from a new
\* from_str(start_content) instance, and every trial ends with the len() a
\* first trial ends with.
C10_TrialIsolation ==
    [][/\ pc \in {"iter", "replay", "apply", "assert"} =>
            (crdt' = crdt /\ updates' = updates /\ trace' = trace)
       /\ (pc = "iter" /\ group = "downstream") => rope' = crdt
       /\ (pc = "iter" /\ group = "upstream") =>
            \E id \in ClientIds : rope' = from_str(R, id, trace.start_content)
       /\ (pc' = "assert" /\ group = "downstream") =>
            len(rope') = len(ApplyAllUpdates(crdt, updates))
       /\ (pc' = "assert" /\ group = "upstream") =>
            len(rope') = len(ReplayAll(from_str(R, 1, trace.start_content),
                                       Flatten(trace.txns)))]_vars

\* C10's case: a second downstream trial has changed its clone.
C10_Witness ==
    /\ group = "downstream"
    /\ trial = 1
    /\ pc = "assert"
    /\ rope # crdt


\* ------------------------------------------------------------------ direct calls
\* The two traits called directly, outside the drivers: an instance made by
\* from_str and edited by insert, remove and replace, or a baseline derived by
\* upstream_updates, cloned, and given its updates in any order. pi counts the
\* Upstream calls and ui the apply_update calls; calls also logs the
\* apply_update calls, start being the index of the update applied.
InitApi ==
    /\ group = "api"
    /\ R \in Engines
    /\ file = Null
    /\ trace = Null
    /\ crdt = Null
    /\ updates = <<>>
    /\ rope = Null
    /\ ti = 1
    /\ pi = 1
    /\ ui = 1
    /\ calls = <<>>
    /\ trial = 0
    /\ report = Null
    /\ pc = "api"

\* The offsets, in the unit the adapter declares, that lie in bounds of r and
\* on a character boundary.
Offsets(r) ==
    CASE r.kind = "cola" -> 0..r.len
      [] r.kind = "yrs" ->
            {b \in 0..ByteLen(Content(r)) : CharIdx(Content(r), b) # -1}
      [] OTHER -> 0..CharLen(Content(r))

\* What a call that returned c leaves: the instance, the calls logged, and the
\* process aborted if the call panicked.
ApiReturn(c) ==
    /\ rope' = c.rope
    /\ calls' = calls \o c.calls
    /\ pi' = pi + 1
    /\ pc' = IF c.rope.kind = "panic" THEN "panicked" ELSE "api"
    /\ UNCHANGED <<group, R, file, trace, crdt, updates, ti, ui, trial, report>>

ApiFromStr(id) ==
    /\ pc = "api"
    /\ rope = Null
    /\ crdt = Null
    /\ \E s \in StartTexts : rope' = from_str(R, id, s)
    /\ UNCHANGED <<group, R, file, trace, crdt, updates, ti, pi, ui, calls, trial,
                   report, pc>>

ApiInsert ==
    /\ pc = "api"
    /\ Live(rope)
    /\ crdt = Null
    /\ pi <= MaxPatches
    /\ \E at \in Offsets(rope), s \in InsTexts :
          ApiReturn(insert(Ctx(rope), at, s))

ApiRemove ==
    /\ pc = "api"
    /\ Live(rope)
    /\ crdt = Null
    /\ pi <= MaxPatches
    /\ \E start \in Offsets(rope), end \in Offsets(rope) :
          start <= end /\ ApiReturn(remove(Ctx(rope), start, end))

ApiReplace ==
    /\ pc = "api"
    /\ Live(rope)
    /\ crdt = Null
    /\ pi <= MaxPatches
    /\ \E start \in Offsets(rope), end \in Offsets(rope), s \in InsTexts :
          start <= end /\ ApiReturn(replace(Ctx(rope), start, end, s))

\* The adapters rope.rs implements Downstream for.
DownstreamEngines == {"diamond-types", "automerge", "yrs"}

ApiUpstreamUpdates ==
    /\ pc = "api"
    /\ rope = Null
    /\ crdt = Null
    /\ R \in DownstreamEngines
    /\ \E t \in Traces, ids \in [1..3 -> ClientIds] :
          LET got == upstream_updates(R, Transform(R, t), ids)
          IN  /\ file' = t
              /\ trace' = Transform(R, t)
              /\ crdt' = got[1]
              /\ updates' = got[2]
              /\ pc' = IF got[1].kind = "panic" THEN "panicked" ELSE "api"
    /\ UNCHANGED <<group, R, rope, ti, pi, ui, calls, trial, report>>

ApiClone ==
    /\ pc = "api"
    /\ rope = Null
    /\ Live(crdt)
    /\ rope' = crdt
    /\ UNCHANGED <<group, R, file, trace, crdt, updates, ti, pi, ui, calls, trial,
                   report, pc>>

ApiApplyUpdate ==
    /\ pc = "api"
    /\ Live(rope)
    /\ Live(crdt)
    /\ ui <= MaxPatches
    /\ \E u \in 1..Len(updates) :
          LET r == apply_update(rope, updates[u])
          IN  /\ rope' = r
              /\ calls' = Append(calls, [op |-> "apply_update", start |-> u,
                                         end |-> u, text |-> <<>>])
              /\ pc' = IF r.kind = "panic" THEN "panicked" ELSE "api"
    /\ ui' = ui + 1
    /\ UNCHANGED <<group, R, file, trace, crdt, updates, ti, pi, trial, report>>

NextApi ==
    \/ \E id \in ClientIds : ApiFromStr(id)
    \/ ApiInsert
    \/ ApiRemove
    \/ ApiReplace
    \/ ApiUpstreamUpdates
    \/ ApiClone
    \/ ApiApplyUpdate

\* Any adapter under direct calls of its trait operations.
SpecApi == InitApi /\ [][NextApi]_vars


\* C11: a trial whose final len() differs from the expected end length, in
\* either driver, ends in the assertion-failure state with no measurement
\* counted, and the failure report names both the trace and the engine.
C11_MismatchReport ==
    /\ (pc = "assert_failed") <=> (report # Null)
    /\ pc = "assert_failed" =>
          /\ report.kind = "assertion"
          /\ report.left = len(rope)
          /\ report.right = Expected
          /\ report.left # report.right
          /\ {"trace_file", "engine"} \subseteq DOMAIN report
          /\ report.trace_file = BenchmarkId.function_name
          /\ report.engine = BenchmarkId.parameter

\* C12: a call of an operation its adapter does not implement
\* (Automerge::insert, Automerge::remove, Automerge::upstream_updates,
\* Yrs::apply_update) aborts at that call: it returns no instance and no
\* value, and nothing runs after it.
C12_CapabilityGap ==
    [][/\ pc # "panicked"
       /\ (R = "automerge" /\ Len(calls') > Len(calls)) =>
            (pc' = "panicked" /\ rope' = Panic("unimplemented"))
       /\ (R = "automerge" /\ trace = Null /\ trace' # Null) =>
            (pc' = "panicked" /\ crdt' = Panic("todo") /\ updates' = <<>>)
       /\ (R = "yrs" /\ ui' # ui) =>
            (pc' = "panicked" /\ rope' = Panic("todo"))]_vars

\* C12's case: Automerge::insert or Automerge::remove has been called.
C12_Witness ==
    /\ group = "api"
    /\ R = "automerge"
    /\ calls # <<>>
    /\ pc = "panicked"

\* The reasons the stubs of rope.rs panic with.
Stubs == {"unimplemented", "todo"}

\* C13: no bench main.rs configures reaches an unimplemented operation: the
\* downstream group runs Dt only, and an upstream replay of Automerge calls
\* neither insert nor remove, its replace being its own.
C13_StubsUnreachable ==
    /\ rope.kind = "panic" => rope.why \notin Stubs
    /\ crdt.kind = "panic" => crdt.why \notin Stubs
    /\ group = "downstream" => R = "diamond-types"
    /\ R = "automerge" => calls = <<>>

\* C13's case: an upstream replay of Automerge has replaced text and reached
\* its end.
C13_Witness ==
    /\ group = "upstream"
    /\ R = "automerge"
    /\ pc = "assert"
    /\ trace.txns # <<>>
    /\ Live(rope)
    /\ rope.text # trace.start_content

\* The start content and the inserted texts of t hold single-byte characters
\* only.
SingleByte(t) ==
    /\ \A i \in 1..Len(t.start_content) : Utf8Len(t.start_content[i]) = 1
    /\ \A p \in {Flatten(t.txns)[i] : i \in 1..Len(Flatten(t.txns))} :
          \A i \in 1..Len(p.ins) : Utf8Len(p.ins[i]) = 1

\* C15: on a trace of single-byte characters only, a replay of the
\* chars_to_bytes trace by a byte-offset adapter (cola, Yrs) and a replay of
\* the original trace by a codepoint-offset adapter (Dt, Automerge) end with
\* the same len().
C15_OffsetRoundTrip ==
    (group = "upstream" /\ pc = "assert" /\ SingleByte(file)) =>
        \A E \in Engines :
            EDITS_USE_BYTE_OFFSETS(E) # EDITS_USE_BYTE_OFFSETS(R) =>
                len(ReplayAll(from_str(E, 1, file.start_content),
                              Flatten(Transform(E, file).txns))) = len(rope)

\* C15's case: cola has replayed a single-byte trace that inserts and removes.
C15_Witness ==
    /\ group = "upstream"
    /\ R = "cola"
    /\ pc = "assert"
    /\ SingleByte(file)
    /\ trace.using_byte_positions
    /\ \E i \in 1..Len(Flatten(trace.txns)) : Flatten(trace.txns)[i].del > 0

\* C16: an upstream trial starts with no patch applied, then calls replace
\* once for each patch, with the range pos..pos+del and the patch's text, in
\* the order of the trace (transaction by transaction, and in the listed order
\* within a transaction); the length check comes only after the last patch,
\* and nothing is replaced after it.
C16_UpstreamOrder ==
    [][group = "upstream" =>
        LET all == Flatten(trace.txns)
            k == Len(AppliedPatches(trace.txns, ti, pi))
            kNext == Len(AppliedPatches(trace.txns, ti', pi'))
        IN  /\ pc \notin {"done", "assert_failed", "panicked"}
            /\ pc = "iter" => (kNext = 0 /\ pc' \in {"replay", "assert"})
            /\ pc = "replay" =>
                  /\ k < Len(all)
                  /\ rope' = replace(Ctx(rope), all[k + 1].pos,
                                     all[k + 1].pos + all[k + 1].del,
                                     all[k + 1].ins).rope
                  /\ kNext = k + 1
                  /\ pc' \in {"replay", "assert", "panicked"}
            /\ pc' = "replay" => kNext < Len(all)
            /\ pc' = "assert" => kNext = Len(all)
            /\ pc = "assert" =>
                  (rope' = rope /\ pc' \in {"iter", "done", "assert_failed"})]_vars

\* C16's case: a trial has replayed a transaction of two patches that do not
\* commute and reached the length check.
C16_Witness ==
    /\ group = "upstream"
    /\ pc = "assert"
    /\ Live(rope)
    /\ \E t \in 1..Len(trace.txns) :
          /\ Len(trace.txns[t]) = 2
          /\ trace.txns[t][1] # trace.txns[t][2]

RECURSIVE OpsBefore(_, _)
\* The number of characters the patches before the i-th delete and insert.
OpsBefore(patches, i) ==
    IF i <= 1 THEN 0
    ELSE OpsBefore(patches, i - 1) + patches[i - 1].del + Len(patches[i - 1].ins)

\* C17: the i-th update of upstream_updates holds exactly what the source did
\* for the i-th patch, its removals and its insertions, and nothing of an
\* earlier patch or of the seed; together the updates hold everything the
\* source did after the seed, once.
C17_IncrementalDelta ==
    SetupDone =>
        LET patches == Flatten(file.txns)
            seed == Len(file.start_content)
        IN  \A i \in 1..Len(updates) :
                /\ R = "diamond-types" =>
                    /\ updates[i].from = seed + OpsBefore(patches, i) - 1
                    /\ Len(updates[i].ops) = patches[i].del + Len(patches[i].ins)
                    /\ \A k \in 1..Len(updates[i].ops) :
                          updates[i].ops[k].seq = updates[i].from + k
                /\ R = "yrs" =>
                    /\ Len(updates[i].items) = Len(patches[i].ins)
                    /\ \A k \in 1..Len(updates[i].items) :
                          updates[i].items[k].clock >= seed
                    /\ Cardinality(updates[i].ds) = patches[i].del

\* C18: when the downstream driver applies an update to a clone that has the
\* updates before it, the version the update starts from is in the clone, as
\* an entry of the same agent and sequence number; for the first update that
\* version is the seed both from_str calls of upstream_updates made.
C18_CausalReadiness ==
    /\ (SetupDone /\ updates # <<>>) => updates[1].from = DtTip(crdt.oplog)
    /\ (group = "downstream" /\ pc = "apply") =>
          LET from == updates[ui].from
          IN  /\ from <= DtTip(rope.oplog)
              /\ decode_and_add(rope.oplog, updates[ui]).ok
              /\ from >= 0 =>
                    (rope.oplog[from + 1].agent = "bench" /\
                     rope.oplog[from + 1].seq = from)

\* C18's case: the second update is about to be applied to a seeded clone
\* that took entries from the first.
C18_Witness ==
    /\ group = "downstream"
    /\ pc = "apply"
    /\ ui = 2
    /\ trace.start_content # <<>>
    /\ Len(rope.oplog) > Len(crdt.oplog)
    /\ updates[2].ops # <<>>

\* C19: for every adapter, Automerge with its own replace included, a replace
\* of an in-bounds range by a text changes len() by the length of the text
\* less the length of the range, both in the unit the adapter declares; an
\* empty range with an empty text leaves len() as it was.
C19_ReplaceLenDelta ==
    [][(group = "upstream" /\ pc = "replay" /\ Live(rope')) =>
          len(rope') = len(rope) - CurrentPatch.del + UnitLen(R, CurrentPatch.ins)]_vars

\* C20: Dt::apply_update discards the result of decode_and_add: an update
\* that fails to apply does not abort at that update and reports nothing, it
\* leaves the instance as it was, and the updates after it are applied; only
\* len() shows the failure.
C20_SwallowedErrors ==
    [][(R = "diamond-types" /\ ui' # ui) =>
          LET u == calls'[Len(calls')].start
              got == decode_and_add(rope.oplog, updates[u])
          IN  /\ pc' = "api"
              /\ report' = report
              /\ rope'.oplog = got.oplog
              /\ ~got.ok => (rope' = rope /\ len(rope') = len(rope))]_vars

\* C20's case: the second update was applied to the baseline first and
\* failed, the first update was applied after it and succeeded, and len() is
\* short of what both updates give.
C20_Witness ==
    /\ group = "api"
    /\ R = "diamond-types"
    /\ pc = "api"
    /\ Len(calls) = 2
    /\ calls[1].start = 2
    /\ calls[2].start = 1
    /\ ~decode_and_add(crdt.oplog, updates[2]).ok
    /\ rope = Dt_apply_update(crdt, updates[1])
    /\ rope # crdt
    /\ len(rope) # len(ApplyAllUpdates(crdt, updates))
====
